---- MODULE Spec2Model ----
(***************************************************************************)
(* Model of proptest's Strategy / ValueTree protocol (strategy/traits.rs):  *)
(* the wrapping strategies (NoShrink, BoxedStrategyWrapper, the proxy       *)
(* impls), Just, and the sanity harness check_strategy_sanity.              *)
(*                                                                         *)
(* A ValueTree implementation under test is a record; the implementors the *)
(* harness is run against are a binary-search tree following the notional  *)
(* (low, current, high) machine of the ValueTree documentation, Just, and   *)
(* a counting tree whose simplify()/complicate() return values are fixed    *)
(* by budgets, optionally carrying one contract fault.                      *)
(***************************************************************************)
EXTENDS Integers, Sequences, FiniteSets, TLC

VARIABLES
    options,            \* Option<CheckStrategySanityOptions>
    strategy,           \* the strategy handed to the harness / the caller
    runner,             \* TestRunner: number of random draws consumed
    trial,              \* index of the `for _ in 0..1024` loop
    pc,                 \* position in check_strategy_sanity
    state,              \* `state`
    before_simplified,  \* `before_simplified`
    complicated,        \* `complicated`
    before_complicated, \* `before_complicated`
    prev_complicated,   \* `prev_complicated`
    num_simplifies,     \* `num_simplifies`
    num_complications,  \* `num_complications`
    result,             \* "running" | "passed" | "failed" (a panic)
    reason,             \* which assertion / panic fired
    hist,               \* observation record of the calls made (history)
    api                 \* state of the direct-call driver (TreeSpec)

vars == <<options, strategy, runner, trial, pc, state, before_simplified,
          complicated, before_complicated, prev_complicated, num_simplifies,
          num_complications, result, reason, hist, api>>

----------------------------------------------------------------------------
(* Bounds of the model (inputs), and program constants.                    *)

MaxVal == 3
MaxAt == 17
MaxCalls == 3
MaxDraws == 2
MaxBin == 5
MaxSteps == 7
MaxFlatSteps == 5
MaxCases == 2
MaxRegens == 3
MaxLocalRejects == 2
MaxDepth == 2
MaxSize == 3
MaxBranchSize == 2

NumTrials_Short == 1024 - 1
NumTrials == 1024
LoopLimit == 65536
SimplifyIterEnd_Short == 16 - 1
SimplifyIterEnd == 16
ComplicateIterStart == 1
ComplicateIterEnd_Short == 16 - 1
ComplicateIterEnd == 16

Reasons == {"whence_a", "whence_b"}

----------------------------------------------------------------------------
(* ValueTree implementations.  A tree is a record: w is the stack of tree  *)
(* wrappers around the base tree (outermost first), the other fields are   *)
(* the base tree's state.                                                  *)

NoFault == "none"
Faults == {"simplify_wakes", "simplify_drifts", "complicate_wakes",
           "complicate_drifts"}

NoTree == [w |-> <<>>, kind |-> "None", lo |-> 0, cur |-> 0, hi |-> 0,
           cnt |-> 0, undo |-> 0, m |-> 0, fault |-> NoFault, at |-> 0,
           tick |-> 0]

\* The tree of a numeric range: low is the minimal value, current = high = v.
BinTree(v) == [NoTree EXCEPT !.kind = "Bin", !.cur = v, !.hi = v]

\* Initially low is the minimal value of the range, high and current are
\* the chosen value.
BinTreeFrom(l, v) == [BinTree(v) EXCEPT !.lo = l]

\* Just<T>(pub T)
JustTree(v) == [NoTree EXCEPT !.kind = "Just", !.cur = v]

\* A tree whose value never changes: simplify() returns true cnt times;
\* after each of them complicate() returns true m times.
CountTree(cnt, m, fault, at) ==
    [NoTree EXCEPT !.kind = "Count", !.cnt = cnt, !.m = m, !.fault = fault,
                   !.at = at]

Ret(b, t) == [ret |-> b, t |-> t]

BinSimplify_HighIsHalfway(t) ==
    IF ~(t.hi > t.lo) THEN Ret(FALSE, t)
    ELSE LET mid == t.lo + ((t.cur - t.lo) \div 2)
         IN  Ret(mid # t.cur, [t EXCEPT !.hi = mid, !.cur = mid])

BinSimplify_ComparesAfterMove(t) ==
    IF ~(t.hi > t.lo) THEN Ret(FALSE, t)
    ELSE LET mid == t.lo + ((t.cur - t.lo) \div 2)
         IN  Ret(mid # mid, [t EXCEPT !.hi = t.cur, !.cur = mid])

\* simplify() of the notional machine: high := current, current := halfway
\* between low and high rounding towards low.  Nothing is left to do once
\* high has reached low; the call returns whether current moved.
BinSimplify(t) ==
    IF ~(t.hi > t.lo) THEN Ret(FALSE, t)
    ELSE LET mid == t.lo + ((t.cur - t.lo) \div 2)
         IN  Ret(mid # t.cur, [t EXCEPT !.hi = t.cur, !.cur = mid])

BinComplicate_LowIsCurrent(t) ==
    IF ~(t.hi > t.lo) THEN Ret(FALSE, t)
    ELSE LET low == t.cur
             mid == low + ((t.hi - low) \div 2)
         IN  Ret(mid # t.cur, [t EXCEPT !.lo = low, !.cur = mid])

\* complicate() of the notional machine: low := current + 1, current :=
\* halfway between the new low and high rounding towards low.  Nothing is
\* left to do once low has reached high; the call returns whether current
\* moved.
BinComplicate(t) ==
    IF ~(t.hi > t.lo) THEN Ret(FALSE, t)
    ELSE LET low == t.cur + 1
             mid == low + ((t.hi - low) \div 2)
         IN  Ret(mid # t.cur, [t EXCEPT !.lo = low, !.cur = mid])

\* An idle call (nothing left to do) of a faulty counting tree: on its
\* at-th idle call the tree returns true although nothing changed ("wakes")
\* or changes its value although it returns false ("drifts").
IdleCall(t, op) ==
    IF t.fault \in {op \o "_wakes", op \o "_drifts"} /\ t.tick < t.at
    THEN LET u == [t EXCEPT !.tick = @ + 1]
         IN  IF u.tick < t.at THEN Ret(FALSE, u)
             ELSE IF t.fault = op \o "_wakes" THEN Ret(TRUE, u)
             ELSE Ret(FALSE, [u EXCEPT !.cur = @ + 1])
    ELSE Ret(FALSE, t)

CountSimplify(t) ==
    IF t.cnt > 0
    THEN Ret(TRUE, [t EXCEPT !.cnt = @ - 1, !.undo = t.m])
    ELSE IdleCall(t, "simplify")

CountComplicate(t) ==
    IF t.undo > 0
    THEN Ret(TRUE, [t EXCEPT !.undo = @ - 1])
    ELSE IdleCall(t, "complicate")

JustSimplify_Steps(t) == Ret(t.cur > 0, [t EXCEPT !.cur = t.cur \div 2])

\* impl ValueTree for Just: simplify and complicate
JustSimplify(t) == Ret(FALSE, t)
JustComplicate(t) == Ret(FALSE, t)

Inner(t) == [t EXCEPT !.w = Tail(@)]
Wrap(k, t) == [t EXCEPT !.w = <<k>> \o @]

RECURSIVE Current(_)
RECURSIVE Simplify(_)
RECURSIVE Complicate(_)

NoShrinkSimplify_Delegates(t) ==
    LET r == Simplify(Inner(t)) IN Ret(r.ret, Wrap("NoShrink", r.t))

\* impl ValueTree for NoShrink<T>
NoShrinkCurrent(t) == Current(Inner(t))
NoShrinkSimplify(t) == Ret(FALSE, t)
NoShrinkComplicate(t) == Ret(FALSE, t)

BoxSimplify_Complicates(t) ==
    LET r == Complicate(Inner(t)) IN Ret(r.ret, Wrap("Box", r.t))

\* impl ValueTree for Box<T>
BoxCurrent(t) == Current(Inner(t))
BoxSimplify(t) ==
    LET r == Simplify(Inner(t)) IN Ret(r.ret, Wrap("Box", r.t))
BoxComplicate(t) ==
    LET r == Complicate(Inner(t)) IN Ret(r.ret, Wrap("Box", r.t))

\* The tree of the tuple strategy (Just(a), 0..a): the first component
\* never shrinks, the second is the tree of the range.
PairTree(a, b) == [w |-> <<>>, kind |-> "Pair", a |-> a, b |-> b]
PairCurrent(t) == <<t.a, Current(t.b)>>
PairSimplify(t) ==
    LET r == Simplify(t.b) IN Ret(r.ret, [t EXCEPT !.b = r.t])
PairComplicate(t) ==
    LET r == Complicate(t.b) IN Ret(r.ret, [t EXCEPT !.b = r.t])

\* The tree of a Flatten: the tree of the controlling input (meta), the
\* function applied to its value, the tree drawn from the derived strategy
\* (current), whether that tree is as drawn (fresh: simplify() was never
\* called on it), the derived tree to fall back to (final_complication)
\* and the number of candidates complicate() may still draw.
NoneTree == <<>>
FlatTree(meta, fun, current) ==
    [w |-> <<>>, kind |-> "Flat", meta |-> meta, fun |-> fun,
     current |-> current, fresh |-> TRUE, final_complication |-> NoneTree,
     complicate_regen_remaining |-> 0]
FlatCurrent(t) == Current(t.current)

\* The tree of a Shuffle: the tree of the value to shuffle (inner), the
\* random numbers captured when the tree was made (rng), the search over
\* the distance an element may be moved (dist: as far as the length
\* allows at first, 0 is the original order) and whether the search is
\* over and the value itself is being simplified (simplifying_inner).
ShuffleTree(inner, rng) ==
    [w |-> <<>>, kind |-> "Shuffle", inner |-> inner, rng |-> rng,
     dist |-> BinTree(IF Len(Current(inner)) = 0 THEN 0
                      ELSE Len(Current(inner)) - 1),
     simplifying_inner |-> FALSE]

Swap_Overwrites(v, i, j) == [v EXCEPT ![i] = v[j]]

Swap(v, i, j) == [v EXCEPT ![i] = v[j], ![j] = v[i]]

RECURSIVE ShuffleFrom(_, _, _, _)
\* Each position from i on is swapped with a position at most dist further
\* on, chosen by the captured random numbers.
ShuffleFrom(v, i, rng, dist) ==
    IF i > Len(v) THEN v
    ELSE LET span == IF Len(v) - i < dist THEN Len(v) - i ELSE dist
             j == i + (rng[i] % (span + 1))
         IN  ShuffleFrom(Swap(v, i, j), i + 1, rng, dist)

ShuffleCurrent(t) == ShuffleFrom(Current(t.inner), 1, t.rng, Current(t.dist))

\* simplify() brings the result closer to the original order; once that
\* search is over, or was cancelled by complicate(), the value itself is
\* simplified.
ShuffleSimplify(t) ==
    LET d == Simplify(t.dist)
        i == Simplify(t.inner)
    IN  IF t.simplifying_inner THEN Ret(i.ret, [t EXCEPT !.inner = i.t])
        ELSE IF d.ret THEN Ret(TRUE, [t EXCEPT !.dist = d.t])
        ELSE Ret(i.ret, [t EXCEPT !.dist = d.t, !.inner = i.t,
                                  !.simplifying_inner = TRUE])

ShuffleComplicate(t) ==
    LET d == Complicate(t.dist)
        i == Complicate(t.inner)
    IN  IF t.simplifying_inner THEN Ret(i.ret, [t EXCEPT !.inner = i.t])
        ELSE Ret(d.ret, [t EXCEPT !.dist = d.t, !.simplifying_inner = TRUE])

\* The tree of a Union: the trees of the alternatives up to the chosen one
\* (index 0 first), the index in use, and whether the last simplify()
\* switched to alternative 0 (whose tree has then not been stepped yet).
UnionTree(opts, pick) ==
    [w |-> <<>>, kind |-> "Union", options |-> opts, pick |-> pick,
     switched |-> FALSE]

Active(t) == t.options[t.pick + 1]

\* Union's tree: a passthrough over the chosen sub-tree ...
UnionCurrent(t) == Current(Active(t))
UnionComplicate(t) ==
    LET r == Complicate(Active(t))
    IN  Ret(r.ret, [t EXCEPT !.options[t.pick + 1] = r.t])

\* ... except that simplify() switches to the lowest-indexed alternative
\* once the active sub-tree can simplify no further and is not already
\* the lowest index.
UnionSimplify(t) ==
    LET r == Simplify(Active(t))
        u == [t EXCEPT !.options[t.pick + 1] = r.t, !.switched = FALSE]
    IN  IF r.ret THEN Ret(TRUE, u)
        ELSE IF t.pick > 0
        THEN Ret(TRUE, [u EXCEPT !.pick = 0, !.switched = TRUE])
        ELSE Ret(FALSE, u)

\* The values of a recursive structure: a leaf, or a branch of values
Leaf(v) == [leaf |-> TRUE, v |-> v, kids |-> <<>>]
Branch(kids) == [leaf |-> FALSE, v |-> 0, kids |-> kids]

\* The tree of a branch: the trees of its elements and the index of the
\* element the last simplify() call stepped (0: none).
NodeTree(kids) == [w |-> <<>>, kind |-> "Node", kids |-> kids, last |-> 0]
NodeCurrent(t) == Branch([i \in DOMAIN t.kids |-> Current(t.kids[i])])

RECURSIVE NodeSimplifyFrom(_, _)
\* simplify() of a branch: the first element, from the i-th on, whose
\* simplify() returns true
NodeSimplifyFrom(t, i) ==
    IF i > Len(t.kids) THEN Ret(FALSE, t)
    ELSE LET r == Simplify(t.kids[i])
             u == [t EXCEPT !.kids[i] = r.t]
         IN  IF r.ret THEN Ret(TRUE, [u EXCEPT !.last = i])
             ELSE NodeSimplifyFrom(u, i + 1)

\* complicate() of a branch: the element stepped last
NodeComplicate(t) ==
    IF t.last = 0 THEN Ret(FALSE, t)
    ELSE LET r == Complicate(t.kids[t.last])
         IN  Ret(r.ret, [t EXCEPT !.kids[t.last] = r.t])

\* The tree of a Filter: the tree of the source, the label and the
\* predicate; panicked records that no acceptable value could be stepped
\* back to.
FilterTree(source, whence, fun) ==
    [w |-> <<>>, kind |-> "Filter", source |-> source, whence |-> whence,
     fun |-> fun, panicked |-> FALSE]
FilterCurrent(t) == Current(t.source)

\* ValueTree::current, dispatched on the tree's type
Current(t) ==
    IF t.w # <<>>
    THEN IF Head(t.w) = "NoShrink" THEN NoShrinkCurrent(t) ELSE BoxCurrent(t)
    ELSE CASE t.kind = "Union" -> UnionCurrent(t)
           [] t.kind = "Pair" -> PairCurrent(t)
           [] t.kind = "Shuffle" -> ShuffleCurrent(t)
           [] t.kind = "Flat" -> FlatCurrent(t)
           [] t.kind = "Filter" -> FilterCurrent(t)
           [] t.kind = "Node" -> NodeCurrent(t)
           [] OTHER -> t.cur

\* ValueTree::simplify, dispatched on the tree's type
Simplify(t) ==
    IF t.w # <<>>
    THEN IF Head(t.w) = "NoShrink" THEN NoShrinkSimplify(t)
         ELSE BoxSimplify(t)
    ELSE CASE t.kind = "Bin" -> BinSimplify(t)
           [] t.kind = "Union" -> UnionSimplify(t)
           [] t.kind = "Pair" -> PairSimplify(t)
           [] t.kind = "Shuffle" -> ShuffleSimplify(t)
           [] t.kind = "Node" -> NodeSimplifyFrom(t, 1)
           [] t.kind = "Just" -> JustSimplify(t)
           [] OTHER -> CountSimplify(t)

\* ValueTree::complicate, dispatched on the tree's type
Complicate(t) ==
    IF t.w # <<>>
    THEN IF Head(t.w) = "NoShrink" THEN NoShrinkComplicate(t)
         ELSE BoxComplicate(t)
    ELSE CASE t.kind = "Bin" -> BinComplicate(t)
           [] t.kind = "Union" -> UnionComplicate(t)
           [] t.kind = "Pair" -> PairComplicate(t)
           [] t.kind = "Shuffle" -> ShuffleComplicate(t)
           [] t.kind = "Node" -> NodeComplicate(t)
           [] t.kind = "Just" -> JustComplicate(t)
           [] OTHER -> CountComplicate(t)

----------------------------------------------------------------------------
(* Strategies.  A strategy is a record: w is the stack of wrapping         *)
(* strategies around the base strategy (outermost first).                  *)

Proxies == {"Box", "Ref", "RefMut", "Rc", "Arc"}
Wrappers == {"NoShrink", "Boxed"} \cup Proxies

BaseStrategy(kind) == [w |-> <<>>, kind |-> kind, v |-> 0, cnt |-> 0,
                       m |-> 0, fault |-> NoFault, at |-> 0,
                       why |-> "whence_a"]

Range == BaseStrategy("Range")
Just(v) == [BaseStrategy("Just") EXCEPT !.v = v]
Count(cnt, m) == [BaseStrategy("Count") EXCEPT !.cnt = cnt, !.m = m]
Faulty(fault, at) == [BaseStrategy("Count") EXCEPT !.cnt = 1, !.m = 1,
                                                   !.fault = fault, !.at = at]
Fallible(why) == [BaseStrategy("Fallible") EXCEPT !.why = why]
Burst(cnt, m) == [BaseStrategy("Burst") EXCEPT !.cnt = cnt, !.m = m]
Wrapped(k, s) == [s EXCEPT !.w = <<k>> \o @]

\* Result<Self::Value, String> of new_value, with the runner it leaves and
\* the number of calls made to the base strategy's new_value.
Ok(t, rnr) == [ok |-> TRUE, tree |-> t, err |-> "", runner |-> rnr,
               calls |-> 1, panic |-> FALSE]
Err(e, rnr) == [ok |-> FALSE, tree |-> NoTree, err |-> e, runner |-> rnr,
                calls |-> 1, panic |-> FALSE]

\* impl Strategy for Just: Ok(self.clone()), the runner is not used
JustNewValue(s, rnr, r) == Ok(JustTree(s.v), rnr)

\* new_value of the base strategies under test; r is the value the runner's
\* random number generator yields when the strategy draws from it.  Range
\* draws a value; Count builds the same counting tree each time; Burst
\* builds a counting tree with its budget on a fresh runner and an idle one
\* afterwards; the last one rejects the draw 0 with its reason.
BaseNewValue(s, rnr, r) ==
    CASE s.kind = "Just" -> JustNewValue(s, rnr, r)
      [] s.kind = "Range" -> Ok(BinTree(r), rnr + 1)
      [] s.kind = "Count" -> Ok(CountTree(s.cnt, s.m, s.fault, s.at), rnr)
      [] s.kind = "Burst" ->
           Ok(CountTree(IF rnr = 0 THEN s.cnt ELSE 0, s.m, NoFault, 0),
              rnr + 1)
      [] OTHER -> IF r = 0 THEN Err(s.why, rnr + 1)
                  ELSE Ok(JustTree(r), rnr + 1)

RECURSIVE NewValue(_, _, _)

InnerStrategy(s) == [s EXCEPT !.w = Tail(@)]

NoShrinkNewValue_Retries(s, rnr, r) ==
    LET res == NewValue(InnerStrategy(s), rnr, r)
        again == NewValue(InnerStrategy(s), res.runner, r)
    IN  IF res.ok THEN [res EXCEPT !.tree = Wrap("NoShrink", @)]
        ELSE [again EXCEPT !.calls = res.calls + again.calls]

\* impl Strategy for NoShrink<T>: self.0.new_value(runner).map(NoShrink)
NoShrinkNewValue(s, rnr, r) ==
    LET res == NewValue(InnerStrategy(s), rnr, r)
    IN  IF res.ok THEN [res EXCEPT !.tree = Wrap("NoShrink", @)] ELSE res

\* BoxedStrategyWrapper: Ok(Box::new(self.0.new_value(runner)?))
BoxedNewValue(s, rnr, r) ==
    LET res == NewValue(InnerStrategy(s), rnr, r)
    IN  IF res.ok THEN [res EXCEPT !.tree = Wrap("Box", @)] ELSE res

\* proxy_strategy!: (**self).new_value(runner)
ProxyNewValue(s, rnr, r) == NewValue(InnerStrategy(s), rnr, r)

\* Strategy::new_value, dispatched on the strategy's type
NewValue(s, rnr, r) ==
    IF s.w = <<>> THEN BaseNewValue(s, rnr, r)
    ELSE CASE Head(s.w) = "NoShrink" -> NoShrinkNewValue(s, rnr, r)
           [] Head(s.w) = "Boxed" -> BoxedNewValue(s, rnr, r)
           [] OTHER -> ProxyNewValue(s, rnr, r)

PropUnion_OtherFirst(self, other) ==
    [w |-> <<>>, kind |-> "Union", options |-> <<other, self>>]

\* Strategy::prop_union: Union::new(vec![self, other]), the alternatives
\* with uniform weights
PropUnion(self, other) ==
    [w |-> <<>>, kind |-> "Union", options |-> <<self, other>>]

RECURSIVE UnionDraw(_, _, _, _, _)
\* The trees of the alternatives k .. pick + 1 (1-based), each drawn from
\* the runner in turn; rs[k] is what the runner yields to alternative k.
UnionDraw(s, k, pick, rnr, rs) ==
    IF k > pick + 1 THEN [ok |-> TRUE, trees |-> <<>>, err |-> "",
                          runner |-> rnr]
    ELSE LET nv == NewValue(s.options[k], rnr, rs[k])
             rest == UnionDraw(s, k + 1, pick, nv.runner, rs)
         IN  IF ~nv.ok THEN [ok |-> FALSE, trees |-> <<>>, err |-> nv.err,
                             runner |-> nv.runner]
             ELSE [rest EXCEPT !.trees = <<nv.tree>> \o @]

\* new_value of a Union: one index is drawn from the runner, then the
\* trees; an abort of an alternative is the abort of the union.
UnionNewValue(s, rnr, pick, rs) ==
    LET d == UnionDraw(s, 1, pick, rnr + 1, rs)
    IN  IF d.ok THEN Ok(UnionTree(d.trees, pick), d.runner)
        ELSE Err(d.err, d.runner)

\* Strategy::prop_shuffle: Shuffle(self)
PropShuffle(self) == [w |-> <<>>, kind |-> "Shuffle", source |-> self]

\* new_value of a Shuffle: the value's tree, then the random numbers, one
\* for each position (rs)
ShuffleNewValue(s, rnr, rs) ==
    LET nv == NewValue(s.source, rnr, 0)
    IN  IF nv.ok THEN Ok(ShuffleTree(nv.tree, rs), nv.runner + 1) ELSE nv

----------------------------------------------------------------------------
(* The dependent flat-map.  Its strategies use a runner that is a record:  *)
(* the configuration, the flat-map regeneration counter all Flatten trees  *)
(* of the run share, the values its random number generator yields next,   *)
(* the number of candidate values regenerated so far, the local-rejection  *)
(* counter all filters of the run share, the number of candidates that     *)
(* filters have rejected in new_value and the number of values they have   *)
(* stepped back from, the number of new_value calls the caller has made,   *)
(* and what the counters were before the last call.                        *)

Config(cases, regens) ==
    [cases |-> cases, max_flat_map_regens |-> regens,
     max_local_rejects |-> MaxLocalRejects]
Usage(regens, regenerated, rejects, rejected) ==
    [flat_map_regens |-> regens, regenerated |-> regenerated,
     local_rejects |-> rejects, rejected |-> rejected]
TestRunner(config) == [config |-> config, flat_map_regens |-> 0,
                       rs |-> <<>>, regenerated |-> 0, local_rejects |-> 0,
                       rejected |-> 0, stepped_back |-> 0, drawn |-> 0,
                       was |-> Usage(0, 0, 0, 0)]

Gen(rnr) == IF rnr.rs = <<>> THEN 0 ELSE Head(rnr.rs)
Next_Gen(rnr) == [rnr EXCEPT !.rs = IF @ = <<>> THEN @ ELSE Tail(@)]

\* lo..hi and (Just(a), 0..hi)
RangeS(lo, hi) == [w |-> <<>>, kind |-> "RangeS", lo |-> lo, hi |-> hi]
PairBelow(a, hi) == [w |-> <<>>, kind |-> "PairBelow", a |-> a, hi |-> hi]

\* Strategy::prop_flat_map: Flatten::new(Map { source: self, fun })
PropFlatMap(self, fun) ==
    [w |-> <<>>, kind |-> "Flatten", source |-> self, fun |-> fun]

\* The functions given to prop_flat_map:
\*   "pair"   |a| (Just(a), 0..a)
\*   "nest"   |a| (1..a + 1).prop_flat_map(|b| (Just(b), 0..b))
\*   "first"  |(a, _)| (Just(a), 0..a)
Apply_Inclusive(fun, v) ==
    CASE fun = "pair" -> PairBelow(v, v + 1)
      [] fun = "nest" -> PropFlatMap(RangeS(1, v + 1), "pair")
      [] OTHER -> PairBelow(v[1], v[1] + 1)

Apply(fun, v) ==
    CASE fun = "pair" -> PairBelow(v, v)
      [] fun = "nest" -> PropFlatMap(RangeS(1, v + 1), "pair")
      [] OTHER -> PairBelow(v[1], v[1])

CRet(b, t, rnr) == [ret |-> b, t |-> t, runner |-> rnr]

PropFilter_DropsWhence(self, whence, fun) ==
    [w |-> <<>>, kind |-> "Filter", source |-> self, whence |-> "",
     fun |-> fun]

\* Strategy::prop_filter: Filter { source: self, whence, fun }
PropFilter(self, whence, fun) ==
    [w |-> <<>>, kind |-> "Filter", source |-> self, whence |-> whence,
     fun |-> fun]

\* The predicates given to prop_filter
Accepts(fun, v) ==
    CASE fun = "even" -> v % 2 = 0
      [] fun = "odd" -> v % 2 = 1
      [] fun = "big" -> v >= 2
      [] fun = "all" -> TRUE
      [] OTHER -> FALSE

\* runner.reject_local(whence): count the rejection, or fail with a
\* reason that names whence when the budget is used up
RejectLocal(rnr, whence) ==
    IF rnr.local_rejects >= rnr.config.max_local_rejects
    THEN Err("too many local rejects: " \o whence, rnr)
    ELSE Ok(NoTree, [rnr EXCEPT !.local_rejects = @ + 1])

\* runner.flat_map_regen(): may another candidate be regenerated?
FlatMapRegen_Inclusive(rnr) ==
    rnr.flat_map_regens <= rnr.config.max_flat_map_regens
FlatMapRegen(rnr) ==
    rnr.flat_map_regens < rnr.config.max_flat_map_regens
Regen(rnr) == [rnr EXCEPT !.flat_map_regens = @ + 1]

PropRecursive_Swapped(self, depth, desired_size, expected_branch_size, recurse) ==
    [w |-> <<>>, kind |-> "Recursive",
     base |-> Wrapped("Arc", Wrapped("Boxed", self)), recurse |-> recurse,
     depth |-> desired_size, desired_size |-> depth,
     expected_branch_size |-> expected_branch_size]

\* Strategy::prop_recursive: Recursive { base: Arc::new(self.boxed()),
\* recurse, depth, desired_size, expected_branch_size }
PropRecursive(self, depth, desired_size, expected_branch_size, recurse) ==
    [w |-> <<>>, kind |-> "Recursive",
     base |-> Wrapped("Arc", Wrapped("Boxed", self)), recurse |-> recurse,
     depth |-> depth, desired_size |-> desired_size,
     expected_branch_size |-> expected_branch_size]

\* The mixture of a deeper strategy and the leaf strategy: the deeper one
\* is taken with probability num / den.
Mixture(deeper, leaf, num, den) ==
    [w |-> <<>>, kind |-> "Mix", options |-> <<leaf, deeper>>,
     num |-> num, den |-> den]

\* The functions given to prop_recursive:
\*   "single"  |element| element.prop_map(|e| Branch(vec![e])).boxed()
\*   "pair"    |element| (element.clone(), element)
\*                 .prop_map(|(a, b)| Branch(vec![a, b])).boxed()
Recurse(recurse, element) ==
    Wrapped("Boxed", [w |-> <<>>, kind |-> "Node", element |-> element,
                      n |-> IF recurse = "single" THEN 1 ELSE 2])

RECURSIVE Pow(_, _)
Pow(b, e) == IF e = 0 THEN 1 ELSE b * Pow(b, e - 1)

RECURSIVE Expand(_, _)
\* The strategy of remaining depth n of a Recursive: the leaf strategy for
\* n = 0, otherwise recurse applied to the boxed mixture of the strategy
\* of remaining depth n - 1 and the leaf strategy; the mixture's
\* probability is desired_size over (2 * expected_branch_size) to the
\* power of its level below the root.
Expand(s, n) ==
    IF n = 0 THEN s.base
    ELSE Recurse(s.recurse,
                 Wrapped("Arc", Wrapped("Boxed",
                     Mixture(Expand(s, n - 1), s.base, s.desired_size,
                             Pow(2 * s.expected_branch_size,
                                 s.depth - n + 1)))))

RECURSIVE CtxNewValue(_, _)
\* new_value of these strategies
CtxNewValue(s, rnr) ==
    IF s.w # <<>>
    THEN LET res == CtxNewValue(InnerStrategy(s), rnr)
         IN  IF res.ok /\ Head(s.w) = "Boxed"
             THEN [res EXCEPT !.tree = Wrap("Box", @)]
             ELSE res
    ELSE
    CASE s.kind = "Just" -> Ok(JustTree(s.v), rnr)
      [] s.kind = "Recursive" -> CtxNewValue(Expand(s, s.depth), rnr)
      [] s.kind = "Mix" ->
           \* the deeper strategy is taken when the number the generator
           \* yields, out of 0..MaxVal, is below num / den of the range
           LET leaf == CtxNewValue(s.options[1], Next_Gen(rnr))
               deeper == CtxNewValue(s.options[2], leaf.runner)
           IN  IF ~leaf.ok THEN leaf
               ELSE IF ~(Gen(rnr) * s.den < s.num * (MaxVal + 1))
               THEN Ok(UnionTree(<<leaf.tree>>, 0), leaf.runner)
               ELSE IF ~deeper.ok THEN deeper
               ELSE Ok(UnionTree(<<leaf.tree, deeper.tree>>, 1),
                       deeper.runner)
      [] s.kind = "Node" ->
           LET a == CtxNewValue(s.element, rnr)
               b == CtxNewValue(s.element, a.runner)
           IN  IF ~a.ok THEN a
               ELSE IF s.n = 1 THEN Ok(NodeTree(<<a.tree>>), a.runner)
               ELSE IF ~b.ok THEN b
               ELSE Ok(NodeTree(<<a.tree, b.tree>>), b.runner)
      [] s.kind = "RangeS" ->
           Ok(BinTreeFrom(s.lo, s.lo + (Gen(rnr) % (s.hi - s.lo))),
              Next_Gen(rnr))
      [] s.kind = "PairBelow" ->
           Ok(PairTree(s.a, BinTreeFrom(0, Gen(rnr) % s.hi)), Next_Gen(rnr))
      [] s.kind = "Filter" ->
           LET val == CtxNewValue(s.source, rnr)
               rj == RejectLocal([val.runner EXCEPT !.rejected = @ + 1],
                                 s.whence)
           IN  IF ~val.ok THEN val
               ELSE IF Accepts(s.fun, Current(val.tree))
               THEN Ok(FilterTree(val.tree, s.whence, s.fun), val.runner)
               ELSE IF ~rj.ok THEN rj
               ELSE CtxNewValue(s, rj.runner)
      [] OTHER ->
           LET m == CtxNewValue(s.source, rnr)
               c == CtxNewValue(Apply(s.fun, Current(m.tree)), m.runner)
           IN  IF ~m.ok THEN m
               ELSE IF ~c.ok THEN c
               ELSE Ok(FlatTree(m.tree, s.fun, c.tree), c.runner)

RECURSIVE CtxSimplify(_, _)
RECURSIVE CtxComplicate(_, _)

RECURSIVE FlatSearch(_, _)
\* The search of the strategy derived from a simplified input: the input
\* is simplified until a candidate can be drawn from its strategy.
FlatSearch(t, rnr) ==
    LET m == CtxSimplify(t.meta, rnr)
        nv == CtxNewValue(Apply(t.fun, Current(m.t)), m.runner)
    IN  IF ~m.ret THEN CRet(FALSE, [t EXCEPT !.meta = m.t], m.runner)
        ELSE IF nv.ok
        THEN CRet(TRUE,
                  [t EXCEPT !.meta = m.t, !.current = nv.tree,
                            !.fresh = TRUE,
                            !.complicate_regen_remaining =
                                nv.runner.config.cases],
                  [nv.runner EXCEPT !.regenerated = @ + 1])
        ELSE FlatSearch([t EXCEPT !.meta = m.t], nv.runner)

\* simplify() of a Flatten tree: shrink the derived value in place; when
\* that is exhausted and the shared budget allows it, consume budget and
\* search the strategy derived from a simplified input.
FlatSimplify(t, rnr) ==
    LET c == CtxSimplify(t.current, rnr)
        u == [t EXCEPT !.complicate_regen_remaining = 0, !.current = c.t,
                       !.fresh = FALSE]
    IN  IF c.ret
        THEN CRet(TRUE, [u EXCEPT !.final_complication = NoneTree], c.runner)
        ELSE IF ~FlatMapRegen(c.runner) THEN CRet(FALSE, u, c.runner)
        ELSE FlatSearch([u EXCEPT !.final_complication = <<c.t>>],
                        Regen(c.runner))

\* complicate() of a Flatten tree: while the search of the derived
\* strategy goes on and the shared budget allows it, draw another
\* candidate; otherwise step the derived value back up (unless it is as
\* drawn), and at last fall back to the derived value held before the
\* input was simplified.
FlatComplicate(t, rnr) ==
    LET may == t.complicate_regen_remaining > 0 /\ FlatMapRegen(rnr)
        nv == CtxNewValue(Apply(t.fun, Current(t.meta)), Regen(rnr))
        u == [t EXCEPT !.complicate_regen_remaining =
                          IF may THEN @ - 1 ELSE 0]
        r0 == IF may THEN nv.runner ELSE rnr
        c == IF t.fresh THEN CRet(FALSE, t.current, r0)
             ELSE CtxComplicate(t.current, r0)
    IN  IF may /\ nv.ok
        THEN CRet(TRUE, [u EXCEPT !.current = nv.tree, !.fresh = TRUE],
                  [nv.runner EXCEPT !.regenerated = @ + 1])
        ELSE IF c.ret THEN CRet(TRUE, [u EXCEPT !.current = c.t], c.runner)
        ELSE IF u.final_complication # NoneTree
        THEN CRet(TRUE, [u EXCEPT !.current = u.final_complication[1],
                                  !.fresh = FALSE,
                                  !.final_complication = NoneTree],
                  c.runner)
        ELSE CRet(FALSE, [u EXCEPT !.current = c.t], c.runner)

RECURSIVE EnsureAcceptable(_, _)
\* A Filter tree after a step of its source: while the predicate rejects
\* the source's value, the rejection is counted in the runner as far as
\* the budget goes and the source is stepped back up; a source that
\* cannot be stepped back up is a panic.
EnsureAcceptable(t, rnr) ==
    LET rj == RejectLocal([rnr EXCEPT !.stepped_back = @ + 1], t.whence)
        c == CtxComplicate(t.source, rj.runner)
    IN  IF Accepts(t.fun, Current(t.source)) THEN CRet(TRUE, t, rnr)
        ELSE IF ~c.ret
        THEN CRet(TRUE, [t EXCEPT !.source = c.t, !.panicked = TRUE],
                  c.runner)
        ELSE EnsureAcceptable([t EXCEPT !.source = c.t], c.runner)

\* simplify() and complicate() of a Filter tree: step the source, and if
\* it moved make its value acceptable again
FilterSimplify(t, rnr) ==
    LET c == CtxSimplify(t.source, rnr)
        u == [t EXCEPT !.source = c.t]
    IN  IF c.ret THEN EnsureAcceptable(u, c.runner)
        ELSE CRet(FALSE, u, c.runner)

FilterComplicate(t, rnr) ==
    LET c == CtxComplicate(t.source, rnr)
        u == [t EXCEPT !.source = c.t]
    IN  IF c.ret THEN EnsureAcceptable(u, c.runner)
        ELSE CRet(FALSE, u, c.runner)

\* simplify() and complicate() of a tree that may be a Flatten or a
\* Filter tree
CtxSimplify(t, rnr) ==
    CASE t.kind = "Flat" -> FlatSimplify(t, rnr)
      [] t.kind = "Filter" -> FilterSimplify(t, rnr)
      [] OTHER -> LET r == Simplify(t) IN CRet(r.ret, r.t, rnr)

CtxComplicate(t, rnr) ==
    CASE t.kind = "Flat" -> FlatComplicate(t, rnr)
      [] t.kind = "Filter" -> FilterComplicate(t, rnr)
      [] OTHER -> LET r == Complicate(t) IN CRet(r.ret, r.t, rnr)

----------------------------------------------------------------------------
(* check_strategy_sanity                                                   *)

DefaultOptions_NonStrict == [strict_complicate_after_simplify |-> FALSE]

\* impl Default for CheckStrategySanityOptions
DefaultOptions == [strict_complicate_after_simplify |-> TRUE]

None == [some |-> FALSE, val |-> [strict_complicate_after_simplify |-> FALSE]]
Some(o) == [some |-> TRUE, val |-> o]

\* let options = options.unwrap_or_else(CheckStrategySanityOptions::default)
Options == IF options.some THEN options.val ELSE DefaultOptions

NoObs == <<>>
Obs(r) == [ret |-> r.ret, cur |-> Current(r.t)]

\* What the calls made so far returned and showed (history of the run):
\*   drawn      new_value calls made in the run
\*   aborted    the last new_value call returned Err
\*   walked     the last simplify() of the trial's chain returned false
\*   pre        current() of the main tree before its last simplify() call
\*   simp_true  consecutive true returns of simplify() on the main tree
\*   compl_true consecutive true returns of complicate() on the copy
\*   c1         what the first complicate() call on the copy returned
\*   rt         current() of the copy when complicate() first returned
\*              false, against pre
\*   rt_same    steps of the trial at which rt was "same"
\*   s_first    current() after the first false-returning simplify()
\*   s_obs      return value and current() of each further simplify() call
\*   c_pre      current() of the copy before its first false complicate()
\*   c_first    current() of the copy after its first false complicate()
\*   c_obs      return value and current() of each further complicate() call
\*   strict_run what an earlier run on the same strategy, made with the
\*              default options, ended with ("none": no earlier run)
\*   shadow     the trial's tree with nothing but the simplify() calls of the
\*              main loop made on it
\*   main_lineage, copy_lineage
\*              the calls behind the main tree and behind the copy:
\*              "simplify_true" a simplify() call that returned true,
\*              "complicate" a complicate() call; clone() copies them
NoHist == [drawn |-> 0, aborted |-> FALSE, walked |-> FALSE, pre |-> 0, simp_true |-> 0,
           compl_true |-> 0, c1 |-> "none", rt |-> "none", rt_same |-> 0,
           s_first |-> 0, s_obs |-> NoObs,
           c_pre |-> 0, c_first |-> 0, c_obs |-> NoObs,
           strict_run |-> "none",
           shadow |-> NoTree, main_lineage |-> {}, copy_lineage |-> {}]

NoResult == [ok |-> FALSE, tree |-> NoTree, err |-> "", runner |-> 0,
             calls |-> 0, panic |-> FALSE]

\* phase: "start" | "tree" (a tree is held) | "abort" (new_value failed)
\* tree: the tree held; init: the tree as new_value returned it
\* res, r, rnr0: the last new_value result, the draw and the runner it saw
\* all_false: every simplify()/complicate() call on the tree returned false
ApiStart == [phase |-> "start", tree |-> NoTree, init |-> NoTree,
             res |-> NoResult, r |-> 0, rnr0 |-> 0, draws |-> 0,
             n_simplify |-> 0, n_complicate |-> 0, all_false |-> TRUE]

Outcome(ok, why, t, obs) == [ok |-> ok, why |-> why, t |-> t, obs |-> obs]

RECURSIVE SimplifyStability(_, _, _, _)
\* for iter in 0..16 { assert_eq!(before_simplified.current(),
\*   state.current()); if state.simplify() { panic!() } }
SimplifyStability(bs, t, iter, obs) ==
    IF iter >= SimplifyIterEnd THEN Outcome(TRUE, "", t, obs)
    ELSE IF Current(bs) # Current(t)
    THEN Outcome(FALSE, "simplify_false_changed_value", t, obs)
    ELSE LET r == Simplify(t)
         IN  IF r.ret
             THEN Outcome(FALSE, "simplify_true_after_false", r.t,
                          Append(obs, Obs(r)))
             ELSE SimplifyStability(bs, r.t, iter + 1, Append(obs, Obs(r)))

RECURSIVE ComplicateStability(_, _, _, _)
\* for iter in 1..16 { assert_eq!(prev_complicated.current(),
\*   complicated.current()); assert!(!complicated.complicate()) }
ComplicateStability(prev, c, iter, obs) ==
    IF iter >= ComplicateIterEnd THEN Outcome(TRUE, "", c, obs)
    ELSE IF Current(prev) # Current(c)
    THEN Outcome(FALSE, "complicate_false_changed_value", c, obs)
    ELSE LET r == Complicate(c)
         IN  IF r.ret
             THEN Outcome(FALSE, "complicate_true_after_false", r.t,
                          Append(obs, Obs(r)))
             ELSE ComplicateStability(prev, r.t, iter + 1,
                                      Append(obs, Obs(r)))

RoundTripHolds_AfterSimplify(bs, bc, c) == Current(bc) = Current(c)

\* assert_eq!(before_simplified.current(), complicated.current())
RoundTripHolds(bs, bc, c) == Current(bs) = Current(c)

TooManySimplifies_OffByOne(n) == n >= LoopLimit

\* if num_simplifies > 65536 { panic!() }
TooManySimplifies(n) == n > LoopLimit

TooManyComplications_OffByOne(n) == n >= LoopLimit

TooManyComplications_Doubled(n) == n > LoopLimit + LoopLimit

\* if num_complications > 65536 { panic!() }
TooManyComplications(n) == n > LoopLimit

Panic(why) ==
    /\ result' = "failed"
    /\ reason' = why
    /\ pc' = "done"

Running(at) == result = "running" /\ pc = at

Unwrap_OrDefault(nv) == TRUE

\* Result::unwrap(): the value of an Ok, a panic on an Err
Unwrap(nv) == nv.ok /\ ~nv.panic

\* let mut state = strategy.new_value(&mut runner).unwrap();
\* let mut num_simplifies = 0;
HarnessNewValue ==
    /\ Running("new_value")
    /\ trial < NumTrials
    /\ \E r \in 0..MaxVal :
         LET nv == NewValue(strategy, runner, r)
         IN  /\ runner' = nv.runner
             /\ hist' = [NoHist EXCEPT !.drawn = hist.drawn + 1,
                                       !.aborted = ~nv.ok,
                                       !.strict_run = hist.strict_run,
                                       !.shadow = nv.tree]
             /\ IF Unwrap(nv)
                THEN /\ state' = nv.tree
                     /\ num_simplifies' = 0
                     /\ pc' = "simplify"
                     /\ UNCHANGED <<result, reason>>
                ELSE /\ Panic("unwrap")
                     /\ UNCHANGED <<state, num_simplifies>>
    /\ UNCHANGED <<options, strategy, trial, before_simplified, complicated,
                   before_complicated, prev_complicated, num_complications,
                   api>>

\* The `for _ in 0..1024` loop is over: the function returns.
HarnessReturn ==
    /\ Running("new_value")
    /\ trial >= NumTrials
    /\ result' = "passed"
    /\ pc' = "done"
    /\ UNCHANGED <<options, strategy, runner, trial, state, before_simplified,
                   complicated, before_complicated, prev_complicated,
                   num_simplifies, num_complications, reason, hist, api>>

HarnessSimplify_NoBreak ==
    /\ Running("simplify")
    /\ LET r == Simplify(state)
       IN  /\ before_simplified' = state
           /\ state' = r.t
           /\ complicated' = r.t
           /\ before_complicated' = r.t
           /\ hist' = [hist EXCEPT
                         !.pre = Current(state),
                         !.simp_true = IF r.ret THEN @ + 1 ELSE @,
                         !.compl_true = 0,
                         !.c1 = "none",
                         !.rt = "none",
                         !.c_pre = 0,
                         !.c_first = 0,
                         !.c_obs = NoObs,
                         !.shadow = Simplify(@).t,
                         !.main_lineage =
                             IF r.ret THEN @ \cup {"simplify_true"} ELSE @,
                         !.copy_lineage =
                             IF r.ret
                             THEN hist.main_lineage \cup {"simplify_true"}
                             ELSE hist.main_lineage]
           /\ IF Options.strict_complicate_after_simplify
              THEN /\ pc' = "strict"
                   /\ UNCHANGED <<prev_complicated, num_complications>>
              ELSE /\ pc' = "complicate"
                   /\ prev_complicated' = r.t
                   /\ num_complications' = 0
    /\ UNCHANGED <<options, strategy, runner, trial, num_simplifies, result,
                   reason, api>>

\* before_simplified = state.clone(); if !state.simplify() { break; }
\* let mut complicated = state.clone(); let before_complicated = ...;
\* (non-strict) let mut prev_complicated = complicated.clone();
\* let mut num_complications = 0;
HarnessSimplify ==
    /\ Running("simplify")
    /\ LET r == Simplify(state)
       IN  /\ before_simplified' = state
           /\ state' = r.t
           /\ IF ~r.ret
              THEN /\ pc' = "simplify_stable"
                   /\ hist' = [hist EXCEPT !.pre = Current(state),
                                           !.walked = TRUE,
                                           !.s_first = Current(r.t),
                                           !.shadow = Simplify(@).t]
                   /\ UNCHANGED <<complicated, before_complicated,
                                  prev_complicated, num_complications>>
              ELSE /\ complicated' = r.t
                   /\ before_complicated' = r.t
                   /\ hist' = [hist EXCEPT !.pre = Current(state),
                                           !.simp_true = @ + 1,
                                           !.compl_true = 0,
                                           !.c1 = "none",
                                           !.rt = "none",
                                           !.c_pre = 0,
                                           !.c_first = 0,
                                           !.c_obs = NoObs,
                                           !.shadow = Simplify(@).t,
                                           !.main_lineage =
                                               @ \cup {"simplify_true"},
                                           !.copy_lineage =
                                               hist.main_lineage
                                                   \cup {"simplify_true"}]
                   /\ IF Options.strict_complicate_after_simplify
                      THEN /\ pc' = "strict"
                           /\ UNCHANGED <<prev_complicated,
                                          num_complications>>
                      ELSE /\ pc' = "complicate"
                           /\ prev_complicated' = r.t
                           /\ num_complications' = 0
    /\ UNCHANGED <<options, strategy, runner, trial, num_simplifies, result,
                   reason, api>>

HarnessStrictComplicate_OnState ==
    /\ Running("strict")
    /\ LET r == Complicate(state)
       IN  /\ state' = r.t
           /\ complicated' = r.t
           /\ IF ~r.ret
              THEN /\ Panic("complicate_false_after_simplify")
                   /\ hist' = [hist EXCEPT !.c1 = "false",
                                           !.c_pre = Current(state),
                                           !.c_first = Current(r.t),
                                           !.main_lineage =
                                               @ \cup {"complicate"},
                                           !.copy_lineage =
                                               @ \cup {"complicate"}]
                   /\ UNCHANGED <<prev_complicated, num_complications>>
              ELSE /\ prev_complicated' = r.t
                   /\ num_complications' = 0
                   /\ pc' = "complicate"
                   /\ hist' = [hist EXCEPT !.c1 = "true",
                                           !.compl_true = @ + 1,
                                           !.main_lineage =
                                               @ \cup {"complicate"},
                                           !.copy_lineage =
                                               @ \cup {"complicate"}]
                   /\ UNCHANGED <<result, reason>>
    /\ UNCHANGED <<options, strategy, runner, trial, before_simplified,
                   before_complicated, num_simplifies, api>>

\* assert!(complicated.complicate(), ...);
\* let mut prev_complicated = complicated.clone();
\* let mut num_complications = 0;
HarnessStrictComplicate ==
    /\ Running("strict")
    /\ LET r == Complicate(complicated)
       IN  /\ complicated' = r.t
           /\ IF ~r.ret
              THEN /\ Panic("complicate_false_after_simplify")
                   /\ hist' = [hist EXCEPT !.c1 = "false",
                                           !.c_pre = Current(complicated),
                                           !.c_first = Current(r.t),
                                           !.copy_lineage =
                                               @ \cup {"complicate"}]
                   /\ UNCHANGED <<prev_complicated, num_complications>>
              ELSE /\ prev_complicated' = r.t
                   /\ num_complications' = 0
                   /\ pc' = "complicate"
                   /\ hist' = [hist EXCEPT !.c1 = "true",
                                           !.compl_true = @ + 1,
                                           !.copy_lineage =
                                               @ \cup {"complicate"}]
                   /\ UNCHANGED <<result, reason>>
    /\ UNCHANGED <<options, strategy, runner, trial, state, before_simplified,
                   before_complicated, num_simplifies, api>>

\* loop { if !complicated.complicate() { break; }
\*        prev_complicated = complicated.clone(); num_complications += 1;
\*        if num_complications > 65536 { panic!() } }
\* and, once complicate() has returned false, the rest of the loop body:
\* assert_eq!(before_simplified.current(), complicated.current(), ...);
\* for iter in 1..16 { ... }  num_simplifies += 1;
\* if num_simplifies > 65536 { panic!() }
\* The copies go out of scope at the end of the loop body.
HarnessComplicate ==
    /\ Running("complicate")
    /\ LET r == Complicate(complicated)
           o == ComplicateStability(prev_complicated, r.t,
                                    ComplicateIterStart, NoObs)
           h == [hist EXCEPT
                   !.c1 = IF @ = "none" THEN "false" ELSE @,
                   !.c_pre = Current(complicated),
                   !.c_first = Current(r.t),
                   !.rt = IF Current(r.t) = hist.pre THEN "same"
                          ELSE "differs",
                   !.rt_same = IF Current(r.t) = hist.pre THEN @ + 1 ELSE @,
                   !.copy_lineage = @ \cup {"complicate"}]
       IN  IF r.ret
           THEN /\ complicated' = r.t
                /\ prev_complicated' = r.t
                /\ num_complications' = num_complications + 1
                /\ hist' = [hist EXCEPT
                     !.c1 = IF @ = "none" THEN "true" ELSE @,
                     !.compl_true = @ + 1,
                     !.copy_lineage = @ \cup {"complicate"}]
                /\ IF TooManyComplications(num_complications + 1)
                   THEN Panic("complicate_loop")
                   ELSE UNCHANGED <<pc, result, reason>>
                /\ UNCHANGED <<before_complicated, num_simplifies>>
           ELSE IF ~RoundTripHolds(before_simplified, before_complicated,
                                   r.t)
           THEN /\ Panic("round_trip")
                /\ complicated' = r.t
                /\ hist' = h
                /\ UNCHANGED <<before_complicated, prev_complicated,
                               num_complications, num_simplifies>>
           ELSE IF ~o.ok
           THEN /\ Panic(o.why)
                /\ complicated' = o.t
                /\ hist' = [h EXCEPT !.c_obs = o.obs]
                /\ UNCHANGED <<before_complicated, prev_complicated,
                               num_complications, num_simplifies>>
           ELSE /\ hist' = [h EXCEPT !.c_obs = o.obs, !.copy_lineage = {}]
                /\ num_simplifies' = num_simplifies + 1
                /\ complicated' = NoTree
                /\ before_complicated' = NoTree
                /\ prev_complicated' = NoTree
                /\ num_complications' = 0
                /\ IF TooManySimplifies(num_simplifies + 1)
                   THEN Panic("simplify_loop")
                   ELSE /\ pc' = "simplify"
                        /\ UNCHANGED <<result, reason>>
    /\ UNCHANGED <<options, strategy, runner, trial, state, before_simplified,
                   api>>

\* for iter in 0..16 { ... }, then the next trial.
\* `state` and `before_simplified` go out of scope.
HarnessSimplifyStable ==
    /\ Running("simplify_stable")
    /\ LET o == SimplifyStability(before_simplified, state, 0, NoObs)
       IN  /\ hist' = [hist EXCEPT !.s_obs = o.obs]
           /\ IF ~o.ok
              THEN /\ Panic(o.why)
                   /\ state' = o.t
                   /\ UNCHANGED <<trial, before_simplified, num_simplifies>>
              ELSE /\ trial' = trial + 1
                   /\ pc' = "new_value"
                   /\ state' = NoTree
                   /\ before_simplified' = NoTree
                   /\ num_simplifies' = 0
                   /\ UNCHANGED <<result, reason>>
    /\ UNCHANGED <<options, strategy, runner, complicated, before_complicated,
                   prev_complicated, num_complications, api>>


AllOptions == {None} \cup {Some([strict_complicate_after_simplify |-> b]) :
                           b \in BOOLEAN}

\* The strategies the harness is run on.
Strategies ==
    {Range, Just(2), Wrapped("Boxed", Count(1, 1)),
     Wrapped("NoShrink", Count(2, 0)), Count(1, 0), Fallible("whence_a")}
    \cup {Faulty(f, k) : f \in Faults, k \in 1..MaxAt}

Strict == Some([strict_complicate_after_simplify |-> TRUE])
NonStrict == Some([strict_complicate_after_simplify |-> FALSE])

\* Strategies whose first tree has a simplify chain at the loop limit.
SimplifyLoopConfigs ==
    {<<None, Burst(2, 1)>>, <<NonStrict, Burst(LoopLimit, 0)>>,
     <<NonStrict, Burst(LoopLimit + 1, 0)>>}

\* Strategies whose first tree has a complicate chain at the loop limit.
ComplicateLoopConfigs ==
    {<<None, Burst(1, LoopLimit + 1)>>, <<Strict, Burst(1, LoopLimit + 2)>>,
     <<NonStrict, Burst(1, LoopLimit)>>,
     <<NonStrict, Burst(1, LoopLimit + 1)>>}

HarnessInit(configs) ==
    /\ \E c \in configs : options = c[1] /\ strategy = c[2]
    /\ runner = 0
    /\ trial = 0
    /\ pc = "new_value"
    /\ state = NoTree
    /\ before_simplified = NoTree
    /\ complicated = NoTree
    /\ before_complicated = NoTree
    /\ prev_complicated = NoTree
    /\ num_simplifies = 0
    /\ num_complications = 0
    /\ result = "running"
    /\ reason = ""
    /\ hist = NoHist
    /\ api = ApiStart

Init == HarnessInit(AllOptions \X Strategies)

SimplifyLoopInit == HarnessInit(SimplifyLoopConfigs)

ComplicateLoopInit == HarnessInit(ComplicateLoopConfigs)

Next ==
    \/ HarnessNewValue
    \/ HarnessReturn
    \/ HarnessSimplify
    \/ HarnessStrictComplicate
    \/ HarnessComplicate
    \/ HarnessSimplifyStable

Spec == Init /\ [][Next]_vars

SimplifyLoopSpec == SimplifyLoopInit /\ [][Next]_vars

ComplicateLoopSpec == ComplicateLoopInit /\ [][Next]_vars

\* Strategies whose first tree goes on returning true well past the loop
\* limit, from simplify() or from complicate(), and one whose trees are
\* accepted.
EndlessInit ==
    HarnessInit({<<NonStrict, Burst(LoopLimit + LoopLimit, 1)>>,
                 <<None, Burst(1, LoopLimit + LoopLimit)>>,
                 <<None, Count(1, 1)>>})

EndlessSpec == EndlessInit /\ [][Next]_vars

\* check_strategy_sanity(strategy, None) has returned; the caller goes on
\* with check_strategy_sanity(strategy, Some(options)) where
\* options.strict_complicate_after_simplify = false.  The second call
\* makes its own TestRunner.
HarnessAgain ==
    /\ pc = "done"
    /\ result = "passed"
    /\ Options.strict_complicate_after_simplify
    /\ hist.strict_run = "none"
    /\ options' = NonStrict
    /\ runner' = 0
    /\ trial' = 0
    /\ pc' = "new_value"
    /\ result' = "running"
    /\ hist' = [NoHist EXCEPT !.strict_run = result]
    /\ UNCHANGED <<strategy, state, before_simplified, complicated,
                   before_complicated, prev_complicated, num_simplifies,
                   num_complications, reason, api>>

\* Strategies that build the same trees on every run: sound ones, faulty
\* ones, and two whose first tree has a complicate chain at the loop limit.
RelaxInit ==
    HarnessInit({None} \X
                ({Just(2), Count(2, 1), Wrapped("Boxed", Count(1, 1)),
                  Wrapped("NoShrink", Count(2, 0)), Count(1, 0),
                  Burst(1, LoopLimit), Burst(1, LoopLimit + 1)}
                 \cup {Faulty(f, k) : f \in Faults, k \in 1..MaxAt}))

RelaxSpec == RelaxInit /\ [][Next \/ HarnessAgain]_vars

\* Just(v), and S.no_shrink() for infallible strategies S: sound ones,
\* ones whose trees break the contract at some call, and one whose trees
\* have a complicate chain past the loop limit; next to them the same
\* strategies S as they are.
NoShrinkInit ==
    HarnessInit({None, Strict} \X
                ({Just(0), Just(2), Count(1, 1),
                  Faulty("complicate_drifts", 1)}
                 \cup {Wrapped("NoShrink", s) :
                         s \in {Range, Just(2), Count(2, 0), Count(1, 1),
                                Burst(1, LoopLimit + 2)}
                               \cup {Faulty(f, k) : f \in Faults,
                                                    k \in {1, MaxAt}}}))

NoShrinkSpec == NoShrinkInit /\ [][Next]_vars

----------------------------------------------------------------------------
(* A caller that uses a strategy directly: it draws trees with new_value   *)
(* and calls simplify() and complicate() on the tree it holds, in any      *)
(* order.                                                                  *)

BaseStrategies ==
    {Range, Just(0), Just(2), Count(1, 1)} \cup {Fallible(e) : e \in Reasons}

\* The strategies the caller uses: the base ones, each wrapper around each
\* base one, and wrappers of wrappers.
ApiStrategies ==
    BaseStrategies
    \cup {Wrapped(k, b) : k \in Wrappers, b \in BaseStrategies}
    \cup {Wrapped(k, Wrapped(j, b)) : k \in {"NoShrink", "Boxed", "Arc"},
                                      j \in {"NoShrink", "Boxed", "Ref"},
                                      b \in BaseStrategies}

ApiInit ==
    /\ options = None
    /\ strategy \in ApiStrategies
    /\ runner = 0
    /\ trial = 0
    /\ pc = "api"
    /\ state = NoTree
    /\ before_simplified = NoTree
    /\ complicated = NoTree
    /\ before_complicated = NoTree
    /\ prev_complicated = NoTree
    /\ num_simplifies = 0
    /\ num_complications = 0
    /\ result = "running"
    /\ reason = ""
    /\ hist = NoHist
    /\ api = ApiStart

HarnessVars == <<options, strategy, trial, pc, state, before_simplified,
                 complicated, before_complicated, prev_complicated,
                 num_simplifies, num_complications, result, reason, hist>>

\* strategy.new_value(&mut runner)
ApiNewValue ==
    /\ pc = "api"
    /\ api.draws < MaxDraws
    /\ \E r \in 0..MaxVal :
         LET res == NewValue(strategy, runner, r)
         IN  /\ runner' = res.runner
             /\ api' = [ApiStart EXCEPT
                          !.phase = IF res.ok THEN "tree" ELSE "abort",
                          !.tree = res.tree, !.init = res.tree,
                          !.res = res, !.r = r, !.rnr0 = runner,
                          !.draws = api.draws + 1]
    /\ UNCHANGED HarnessVars

\* tree.simplify()
ApiSimplify ==
    /\ pc = "api"
    /\ api.phase = "tree"
    /\ api.n_simplify + api.n_complicate < MaxCalls
    /\ LET c == Simplify(api.tree)
       IN  api' = [api EXCEPT !.tree = c.t, !.n_simplify = @ + 1,
                              !.all_false = @ /\ ~c.ret]
    /\ UNCHANGED <<runner, HarnessVars>>

\* tree.complicate()
ApiComplicate ==
    /\ pc = "api"
    /\ api.phase = "tree"
    /\ api.n_simplify + api.n_complicate < MaxCalls
    /\ LET c == Complicate(api.tree)
       IN  api' = [api EXCEPT !.tree = c.t, !.n_complicate = @ + 1,
                              !.all_false = @ /\ ~c.ret]
    /\ UNCHANGED <<runner, HarnessVars>>

ApiNext ==
    \/ ApiNewValue
    \/ ApiSimplify
    \/ ApiComplicate

TreeSpec == ApiInit /\ [][ApiNext]_vars

----------------------------------------------------------------------------
(* Properties of check_strategy_sanity.                                    *)

InStep == pc \in {"strict", "complicate"}
Failed(why) == result = "failed" /\ reason = why
StrictMode == Options.strict_complicate_after_simplify

\* The trial just walked ended without a panic.
TrialAccepted == pc = "new_value" /\ hist.drawn > 0 /\ result = "running"
\* The checks of one true-returning simplify() ended without a panic.
StepAccepted == pc = "simplify" /\ num_simplifies > 0

\* C1: every true-returning simplify() of the main tree is followed by a
\* copy of the tree on which complicate() is called until it returns false;
\* the harness goes on past that point only when current() of the copy
\* equals current() of the tree before that simplify(), panics with the
\* round-trip message exactly when it differs, and a trial's chain goes on
\* (or ends accepted) only with the equality seen at every step so far.
RoundTripEnforced ==
    /\ pc = "strict" => complicated = state
    /\ InStep => /\ before_complicated = state
                 /\ hist.simp_true = num_simplifies + 1
                 /\ hist.pre = Current(before_simplified)
                 /\ hist.rt = "none"
    /\ Failed("round_trip") <=> (pc = "done" /\ hist.rt = "differs")
    /\ (pc \in {"simplify", "simplify_stable"} \/ TrialAccepted)
         => hist.rt_same = hist.simp_true

\* C1 witness: a step of a range tree whose copy needed two complicate()
\* calls to come back passed the round-trip check.
RoundTripChecked ==
    /\ StepAccepted
    /\ hist.rt = "same"
    /\ hist.compl_true >= 2
    /\ Current(state) # hist.pre

SimplifyCallsQuiet(n) ==
    /\ hist.s_first = hist.pre
    /\ \A i \in 1..Len(hist.s_obs) :
         /\ ~hist.s_obs[i].ret
         /\ i <= n => hist.s_obs[i].cur = hist.pre

\* C2 as stated: an accepted trial made 16 further simplify() calls after
\* the first false one, none returned true and each of the 16 left
\* current() at the value before the first false-returning call.
SimplifyStableAll16 ==
    TrialAccepted =>
        /\ Len(hist.s_obs) = 16
        /\ SimplifyCallsQuiet(16)

\* C2 amended: an accepted trial made 16 further simplify() calls after the
\* first false one, none returned true, and current() was at the value
\* before the first false-returning call after that call and after each of
\* the first 15 further calls (current() is read before each call, never
\* after the 16th); the two stability panics report what happened.
SimplifyStableChecked ==
    /\ TrialAccepted =>
         /\ Len(hist.s_obs) = 16
         /\ SimplifyCallsQuiet(15)
    /\ Failed("simplify_true_after_false") =>
         hist.s_obs[Len(hist.s_obs)].ret
    /\ Failed("simplify_false_changed_value") =>
         ~SimplifyCallsQuiet(15)

\* C2 witness: a trial was accepted although its tree changed current() on
\* the 16th further simplify() call.
SimplifyLastCallUnchecked ==
    /\ TrialAccepted
    /\ Len(hist.s_obs) = 16
    /\ hist.s_obs[16].cur # hist.pre

ComplicateCallsQuiet(n) ==
    /\ hist.c_first = hist.c_pre
    /\ \A i \in 1..Len(hist.c_obs) :
         /\ ~hist.c_obs[i].ret
         /\ i <= n => hist.c_obs[i].cur = hist.c_pre

\* C3 as stated: an accepted step made 16 further complicate() calls on the
\* copy after the first false one, none of which returned true.
ComplicateStable16Calls ==
    StepAccepted =>
        /\ Len(hist.c_obs) = 16
        /\ \A i \in 1..Len(hist.c_obs) : ~hist.c_obs[i].ret

\* C3 amended: an accepted step made 15 further complicate() calls on the
\* copy after the first false one (16 false-returning calls in all), none
\* returned true, and current() of the copy was at the value before the
\* first false-returning call after that call and after each of the first
\* 14 further calls; the two stability panics report what happened.
ComplicateStableChecked ==
    /\ StepAccepted =>
         /\ Len(hist.c_obs) = 15
         /\ ComplicateCallsQuiet(14)
    /\ Failed("complicate_true_after_false") =>
         hist.c_obs[Len(hist.c_obs)].ret
    /\ Failed("complicate_false_changed_value") =>
         ~ComplicateCallsQuiet(14)

\* C3 witness: a step was accepted after exactly 15 further complicate()
\* calls on a copy whose 16th further call would have returned true.
ComplicateFifteenCalls ==
    /\ StepAccepted
    /\ Len(hist.c_obs) = 15
    /\ strategy.fault = "complicate_wakes"
    /\ strategy.at = 17

\* C4: the infinite-loop panic for simplify() fires only after more than
\* 65536 consecutive true returns on the main tree, and after the 65537th
\* true return the harness makes no further simplify() call and accepts
\* nothing: it finishes the checks of that step and panics.
SimplifyLoopDetected ==
    /\ Failed("simplify_loop") => hist.simp_true > LoopLimit
    /\ hist.simp_true > LoopLimit => InStep \/ result = "failed"
    /\ hist.simp_true <= LoopLimit + 1

\* C4 witness: the panic after the 65537th true return.
SimplifyLoopPanicked ==
    Failed("simplify_loop") /\ hist.simp_true = LoopLimit + 1

CountedComplications == hist.compl_true - (IF StrictMode THEN 1 ELSE 0)

OneTreePerTrial ==
    /\ result = "passed" => hist.drawn = 1024 /\ trial = 1024
    /\ result = "failed" => hist.drawn = trial + 1
    /\ result = "running" =>
         hist.drawn = trial + (IF pc = "new_value" THEN 0 ELSE 1)
    /\ (pc = "new_value" /\ trial > 0) => hist.walked
    /\ trial <= 1024

\* C7 witness: a passed run of a strategy whose trees shrink.
RunPassed ==
    result = "passed" /\ hist.drawn = 1024 /\ strategy.kind = "Range"

----------------------------------------------------------------------------
(* Properties of NoShrink, Just and the wrapping strategies.               *)

BaseOf(s) == [s EXCEPT !.w = <<>>]
IsNoShrinkTree(t) == t.w # <<>> /\ Head(t.w) = "NoShrink"

\* C8: on a NoShrink tree every simplify() and complicate() call returns
\* false from the first call on, the wrapped tree stays as it was drawn,
\* and current() is current() of the wrapped tree as drawn.
NoShrinkFrozen ==
    (api.phase = "tree" /\ IsNoShrinkTree(api.init)) =>
        /\ api.all_false
        /\ Inner(api.tree) = Inner(api.init)
        /\ Current(api.tree) = Current(Inner(api.init))

\* C8 witness: simplify() and complicate() were both called on a NoShrink
\* tree around a range tree that could shrink.
NoShrinkCalled ==
    /\ api.phase = "tree"
    /\ api.init.w = <<"NoShrink">>
    /\ api.init.kind = "Bin"
    /\ api.init.cur = MaxVal
    /\ api.n_simplify >= 1
    /\ api.n_complicate >= 1

\* C9: new_value of Just(v) never fails and leaves the runner untouched;
\* the tree's current() is v after any calls, all of which return false.
JustConstant ==
    (strategy.w = <<>> /\ strategy.kind = "Just") =>
        /\ runner = 0
        /\ api.phase # "abort"
        /\ api.draws > 0 => /\ api.res.ok
                            /\ ~api.res.panic
                            /\ api.res.runner = api.rnr0
        /\ api.phase = "tree" => /\ Current(api.tree) = strategy.v
                                 /\ api.all_false

\* C9 witness: Just(2) drawn twice, then simplify() and complicate() called.
JustCalled ==
    /\ strategy = Just(2)
    /\ api.draws = 2
    /\ api.n_simplify >= 1
    /\ api.n_complicate >= 1

\* C10: new_value of a wrapping strategy fails exactly when the wrapped
\* base strategy's new_value fails on the same runner and draw, with the
\* same reason, as an Err and not a panic, after exactly one call of the
\* wrapped new_value (the runner is left as that one call leaves it).
WrapperPropagates ==
    (strategy.w # <<>> /\ api.draws > 0) =>
        LET b == BaseNewValue(BaseOf(strategy), api.rnr0, api.r)
        IN  /\ api.res.ok = b.ok
            /\ api.res.err = b.err
            /\ ~api.res.panic
            /\ api.res.calls = 1
            /\ api.res.runner = b.runner
            /\ runner = b.runner

\* C10 witness: a wrapper of a wrapper returned the abort of its base.
WrapperAborted ==
    /\ Len(strategy.w) = 2
    /\ api.phase = "abort"
    /\ api.res.err = "whence_b"

\* The steps the harness can still take, at most: the trials left, whether
\* the trial's tree is still to be drawn, the steps left within the trial,
\* and within one step the complicate() calls left.
StepRank ==
    CASE pc = "simplify" -> LoopLimit + 3
      [] pc = "strict" -> LoopLimit + 2
      [] pc = "complicate" -> LoopLimit + 1 - num_complications
      [] OTHER -> 0
Rank ==
    CASE pc = "done" -> <<0, 0, 0, 0>>
      [] pc = "new_value" -> <<NumTrials - trial, 1, 0, 0>>
      [] OTHER -> <<NumTrials - trial, 0, LoopLimit + 1 - num_simplifies,
                    StepRank>>

\* a is below b in the lexicographic order, and no part of a is negative
Below(a, b) ==
    /\ \A i \in 1..4 : a[i] >= 0
    /\ \E i \in 1..4 : a[i] < b[i] /\ \A j \in 1..(i - 1) : a[j] = b[j]

\* C22: every step of the harness lowers a rank that is never negative,
\* so a run is finite, and a run that has not ended is at one of the
\* harness's calls, which it makes whatever the tree has returned; no
\* trial makes more than 65537 true-returning simplify() calls, 65538
\* true-returning complicate() calls on one copy, 16 further simplify()
\* and 15 further complicate() calls, and a run ends passed or failed.
HarnessTerminates ==
    /\ [][Below(Rank', Rank)]_vars
    /\ [](/\ pc \in {"new_value", "simplify", "strict", "complicate",
                     "simplify_stable", "done"}
          /\ pc # "done" <=> result = "running"
          /\ pc = "done" <=> result \in {"passed", "failed"}
          /\ hist.simp_true <= LoopLimit + 1
          /\ hist.compl_true <= LoopLimit + 2
          /\ Len(hist.s_obs) <= 16 /\ Len(hist.c_obs) <= 15)

\* C22 witness: the harness has stopped on a copy whose complicate()
\* would return true again.
EndlessStopped ==
    /\ Failed("complicate_loop")
    /\ complicated.undo > 0
    /\ hist.compl_true = LoopLimit + 2

IsBoxTree(t) == t.w # <<>> /\ Head(t.w) = "Box"
IsBoxed(s) == s.w # <<>> /\ Head(s.w) = "Boxed"

\* C21: a boxed strategy draws, from the same runner and draw, the boxed
\* tree of the strategy it wraps and leaves the runner as that strategy
\* does; every simplify() and complicate() call on a boxed tree returns
\* what the same call returns on the tree inside, leaves the box around
\* the tree that call leaves, and current() of the box is current() of the
\* tree inside, before and after the call.
BoxedTransparent ==
    [][/\ (IsBoxed(strategy) /\ api'.draws # api.draws) =>
            LET nv == NewValue(InnerStrategy(strategy), runner, api'.r)
            IN  /\ api'.res.ok = nv.ok
                /\ runner' = nv.runner
                /\ nv.ok => /\ api'.tree = Wrap("Box", nv.tree)
                            /\ Current(api'.tree) = Current(nv.tree)
       /\ (api.phase = "tree" /\ IsBoxTree(api.tree)
           /\ api'.draws = api.draws) =>
            LET r == IF api'.n_simplify # api.n_simplify
                     THEN Simplify(Inner(api.tree))
                     ELSE Complicate(Inner(api.tree))
            IN  /\ api'.tree = Wrap("Box", r.t)
                /\ api'.all_false = (api.all_false /\ ~r.ret)
                /\ Current(api.tree) = Current(Inner(api.tree))
                /\ Current(api'.tree) = Current(r.t)]_vars

\* C21 witness: a boxed range tree was simplified and stepped back up, and
\* shows a value other than the one drawn.
BoxedStepped ==
    /\ strategy = Wrapped("Boxed", Range)
    /\ api.phase = "tree"
    /\ api.n_simplify >= 2
    /\ api.n_complicate >= 1
    /\ ~api.all_false
    /\ Current(api.tree) # Current(api.init)

\* A trial's tree is held and the trial has not ended.
InTrial == pc \in {"simplify", "strict", "complicate", "simplify_stable"}

\* C23: the harness steps its main tree with simplify() only.  The call of
\* the main loop is a simplify() call on the main tree; while the checks of
\* a step run the main tree is left alone, and the tree they call
\* complicate() on starts as a copy of the main tree taken right after a
\* simplify() call returned true and is then changed by complicate() calls
\* only.  So the main tree, whatever was done to the copies, is the drawn
\* tree with nothing but the main loop's simplify() calls made on it.
MainTreeOnlySimplified ==
    /\ [][/\ pc = "simplify" =>
               /\ state' = Simplify(state).t
               /\ InStep' => Simplify(state).ret /\ complicated' = state'
               /\ ~InStep' => complicated' = complicated
          /\ InStep' => pc \in {"simplify", "strict", "complicate"}
          /\ InStep =>
               /\ state' = state
               /\ LET r == Complicate(complicated)
                  IN  complicated' \in
                        {r.t, NoTree,
                         ComplicateStability(prev_complicated, r.t,
                                             ComplicateIterStart, NoObs).t}]_vars
    /\ [](InTrial => state = hist.shadow)

\* C23 witness: the second step of a trial is being checked; complicate()
\* has moved the copy away from the main tree, which is still the drawn
\* tree after two simplify() calls.
MainTreeWalked ==
    /\ pc = "complicate"
    /\ num_simplifies >= 1
    /\ hist.compl_true >= 1
    /\ Current(complicated) # Current(state)
    /\ state = hist.shadow

\* C24: complicate() is called only on a tree with a true-returning
\* simplify() call behind it, and simplify() only on a tree on which
\* complicate() was never called.
LineageRespected ==
    /\ InStep => "simplify_true" \in hist.copy_lineage
    /\ "complicate" \in hist.copy_lineage =>
         "simplify_true" \in hist.copy_lineage /\ hist.c1 # "none"
    /\ pc \in {"simplify", "simplify_stable"} =>
         "complicate" \notin hist.main_lineage
    /\ InTrial => ("simplify_true" \in hist.main_lineage <=>
                      hist.simp_true > 0)
    /\ InStep => hist.copy_lineage \ {"complicate"} = hist.main_lineage

\* C24 witness: simplify() is about to be called on the main tree after
\* complicate() had returned true on a copy of it.
LineageKept ==
    /\ pc = "simplify"
    /\ num_simplifies >= 1
    /\ hist.c1 = "true"
    /\ hist.main_lineage = {"simplify_true"}
    /\ hist.copy_lineage = {}

\* C25: when the run with the default (strict) options reported no
\* violation, the run on the same strategy with
\* strict_complicate_after_simplify = false reports none either.
NonStrictOnlyRelaxes == hist.strict_run = "passed" => result # "failed"

\* C25: the one violation the non-strict run reports on a strategy the
\* strict run accepted is the complicate loop limit, on a copy whose
\* complicate() returned true exactly 65537 times before returning false:
\* the strict run made the first of these calls in its strict check and
\* counted 65536, the non-strict run counts them all.
RelaxedUpToLoopLimit ==
    hist.strict_run = "passed" /\ result = "failed" =>
        /\ reason = "complicate_loop"
        /\ hist.compl_true = LoopLimit + 1
        /\ num_complications = LoopLimit + 1
        /\ strategy = Burst(1, LoopLimit + 1)

\* C25 witness: the run with the default options accepted the strategy and
\* the run without the strict check stopped at the complicate loop limit,
\* on a copy that would have returned false at the next call.
RelaxedRunFailed ==
    /\ hist.strict_run = "passed"
    /\ ~Options.strict_complicate_after_simplify
    /\ Failed("complicate_loop")
    /\ ~Complicate(complicated).ret

\* C26: under the strict options the harness reports no violation for
\* Just(v) and for S.no_shrink(), whatever the trees of S do: the first
\* simplify() call of each trial returns false, so no copy is made, no
\* complicate() call, strict check or round-trip comparison takes place,
\* and the trial ends after the 16 further simplify() calls of the
\* stability check, each of which returns false and shows the drawn value.
UnshrinkablePasses ==
    (strategy.w = <<"NoShrink">> \/ strategy.kind = "Just") =>
    /\ result # "failed"
    /\ StrictMode
    /\ ~InStep
    /\ complicated = NoTree /\ before_complicated = NoTree
    /\ prev_complicated = NoTree
    /\ hist.simp_true = 0 /\ hist.compl_true = 0
    /\ hist.c1 = "none" /\ hist.rt = "none" /\ hist.c_obs = NoObs
    /\ hist.copy_lineage = {} /\ hist.main_lineage = {}
    /\ Len(hist.s_obs) \in {0, SimplifyIterEnd}
    /\ pc = "simplify_stable" =>
         /\ hist.s_obs = NoObs
         /\ state = before_simplified
         /\ hist.s_first = hist.pre
    /\ (hist.walked /\ pc \in {"new_value", "done"}) =>
         /\ Len(hist.s_obs) = SimplifyIterEnd
         /\ \A i \in 1..Len(hist.s_obs) :
              ~hist.s_obs[i].ret /\ hist.s_obs[i].cur = hist.pre

\* C26 witness: all the trials of S.no_shrink() were accepted, for an S
\* whose trees break the contract.
FaultyUnshrinkablePassed ==
    /\ result = "passed"
    /\ trial = NumTrials
    /\ strategy = Wrapped("NoShrink", Faulty("complicate_drifts", 1))
    /\ Len(hist.s_obs) = SimplifyIterEnd

\* C11: the harness fails with the unwrap panic exactly when the last
\* new_value call returned an abort; the failing trial is the one of that
\* draw (no trial is skipped, no second draw is made for it) and no
\* simplify() or complicate() call was made on anything in that trial.
AbortFailsTrial ==
    /\ hist.aborted <=> Failed("unwrap")
    /\ Failed("unwrap") =>
         /\ pc = "done"
         /\ hist.drawn = trial + 1
         /\ runner = hist.drawn
         /\ ~hist.walked
         /\ hist.simp_true = 0
         /\ hist.c1 = "none"
         /\ hist.s_obs = NoObs /\ hist.c_obs = NoObs
         /\ state = NoTree /\ complicated = NoTree

\* C11 witness: the abort came in a later trial, after accepted ones.
AbortInLaterTrial ==
    Failed("unwrap") /\ trial >= 2 /\ strategy.kind = "Fallible"

----------------------------------------------------------------------------
(* The notional (low, current, high) machine on its own.  A caller holds   *)
(* one tree of a numeric range and calls simplify() and complicate() on    *)
(* it; complicate() is not called before simplify() was ever called.       *)

NoCall == [op |-> "none", ret |-> FALSE, cur |-> 0]

\* tree: the tree held; init: the tree as it was created
\* fails: the values on which the caller's test fails
\* last, prev: the last call and the one before (operation, return value,
\*   current() after it)
\* before: the tree before the last call
\* args: the strategies the strategy in use was built from
\* n_complicate: the number of complicate() calls made
\* pre: current() before the last simplify() that returned true
\* only_complicate: every call since that simplify() was a complicate()
\* streak, from: the number of true returns of simplify() in a row, and
\*   current() before the first of them
SearchStart(t, fails, args) ==
    [tree |-> t, init |-> t, before |-> t, fails |-> fails, args |-> args,
     calls |-> 0,
     n_complicate |-> 0,
     last |-> NoCall, prev |-> NoCall, pre |-> 0, only_complicate |-> FALSE,
     streak |-> 0, from |-> Current(t)]

\* The caller's record after the call op, which returned c.
Called(a, op, c) ==
    LET took == op = "simplify" /\ c.ret
    IN  [a EXCEPT
           !.tree = c.t,
           !.before = a.tree,
           !.calls = @ + 1,
           !.n_complicate = IF op = "complicate" THEN @ + 1 ELSE @,
           !.prev = a.last,
           !.last = [op |-> op, ret |-> c.ret, cur |-> Current(c.t)],
           !.pre = IF took THEN Current(a.tree) ELSE @,
           !.only_complicate = IF op = "simplify" THEN c.ret ELSE @,
           !.streak = IF took THEN @ + 1 ELSE 0,
           !.from = IF took THEN (IF a.streak = 0 THEN Current(a.tree) ELSE @)
                    ELSE Current(c.t)]

\* starts: the strategy, the tree it created, the values the test fails on
\* (the runner is set by the strategy's own initial condition)
SearchInit(starts) ==
    /\ options = None
    /\ trial = 0
    /\ state = NoTree
    /\ before_simplified = NoTree
    /\ complicated = NoTree
    /\ before_complicated = NoTree
    /\ prev_complicated = NoTree
    /\ num_simplifies = 0
    /\ num_complications = 0
    /\ result = "running"
    /\ reason = ""
    /\ hist = NoHist
    /\ \E c \in starts :
         /\ Current(c.tree) \in c.fails
         /\ strategy = c.strategy
         /\ api = SearchStart(c.tree, c.fails, c.args)

Start(s, t, fails, args) ==
    [strategy |-> s, tree |-> t, fails |-> fails, args |-> args]

\* The trees a numeric range can create: low <= current = high.
BinTrees == {BinTreeFrom(p[1], p[2]) :
               p \in {q \in (0..MaxBin) \X (0..MaxBin) : q[1] <= q[2]}}

BinInit ==
    /\ pc = "search"
    /\ runner = 0
    /\ SearchInit({Start(Range, t, 0..MaxBin, <<>>) : t \in BinTrees})

\* tree.simplify()
SearchSimplify ==
    /\ pc = "search"
    /\ api.calls < MaxSteps
    /\ api' = Called(api, "simplify", Simplify(api.tree))
    /\ UNCHANGED <<runner, HarnessVars>>

\* complicate() need not handle being called before simplify() was ever
\* called: a union that has just switched passes the call to a sub-tree
\* that was never stepped.
Stepped(t) == t.kind = "Union" => ~t.switched

\* tree.complicate(), once simplify() has been called
SearchComplicate ==
    /\ pc = "search"
    /\ api.calls < MaxSteps
    /\ api.last.op # "none"
    /\ Stepped(api.tree)
    /\ api' = Called(api, "complicate", Complicate(api.tree))
    /\ UNCHANGED <<runner, HarnessVars>>

BinSpec == BinInit /\ [][SearchSimplify \/ SearchComplicate]_vars

\* The shrink loop of the controlling code: the test failed on the initial
\* value; simplify one step; while the call returned true, run the test on
\* current(): simplify further if it still fails, step back up with
\* complicate() if it passes; stop when a call returns false.
TestFails == Current(api.tree) \in api.fails

ShrinkInit ==
    /\ pc = "shrink"
    /\ runner = 0
    /\ SearchInit({Start(Range, t, f, <<>>) :
                     t \in BinTrees, f \in SUBSET (0..MaxBin)})

ShrinkSimplify ==
    /\ pc = "shrink"
    /\ api.last.op = "none" \/ api.last.ret
    /\ TestFails
    /\ api' = Called(api, "simplify", Simplify(api.tree))
    /\ UNCHANGED <<runner, HarnessVars>>

ShrinkComplicate ==
    /\ pc = "shrink"
    /\ api.last.op # "none" /\ api.last.ret
    /\ ~TestFails
    /\ api' = Called(api, "complicate", Complicate(api.tree))
    /\ UNCHANGED <<runner, HarnessVars>>

ShrinkSpec == ShrinkInit /\ [][ShrinkSimplify \/ ShrinkComplicate]_vars

----------------------------------------------------------------------------
(* Properties of the notional machine.                                     *)

\* C12: when complicate() returns false and every call since the last
\* true-returning simplify() was a complicate(), current() is the value it
\* had before that simplify(); and complicate() right after a
\* true-returning simplify() returns true.
ComplicateRestores ==
    (api.last.op = "complicate" /\ api.only_complicate) =>
        /\ ~api.last.ret => Current(api.tree) = api.pre
        /\ api.prev.op = "simplify" => api.last.ret

\* C12 witness: complicate() returned false after three true returns that
\* followed a simplify() from the largest value over a low of 1.
ComplicateRestored ==
    /\ api.last.op = "complicate" /\ ~api.last.ret
    /\ api.only_complicate
    /\ api.init = BinTreeFrom(1, MaxBin)
    /\ api.pre = MaxBin
    /\ api.calls >= 4

\* C13: in the shrink loop the high position of the tree always holds a
\* value on which the test fails.
HighFails == api.tree.hi \in api.fails

\* C13 witness: the loop has stepped back up and simplified again, so high
\* has moved twice from the initial value.
HighMoved ==
    /\ api.last.op = "simplify" /\ api.last.ret
    /\ api.prev.op = "complicate" /\ api.prev.ret
    /\ api.tree.hi < api.init.hi
    /\ api.tree.lo > api.init.lo

\* C14: simplify() returns true only finitely many times in a row (each
\* true return lowers current(), which never goes below the initial low),
\* and a simplify() call that follows a false-returning simplify() returns
\* false and leaves current() as it was.
SimplifyTerminates ==
    /\ api.streak <= api.from - Current(api.tree)
    /\ Current(api.tree) >= api.init.lo
    /\ (api.last.op = "simplify" /\ api.prev.op = "simplify"
        /\ ~api.prev.ret)
         => (~api.last.ret /\ api.last.cur = api.prev.cur)

\* C14 witness: the chain from the largest value was walked to its end and
\* simplify() was called twice more.
SimplifyTerminated ==
    /\ api.init = BinTreeFrom(0, MaxBin)
    /\ api.calls >= 5
    /\ api.last.op = "simplify" /\ ~api.last.ret
    /\ api.prev.op = "simplify" /\ ~api.prev.ret
    /\ api.tree.cur = 0

----------------------------------------------------------------------------
(* self.prop_union(other): a caller draws one tree and shrinks it.         *)

UnionInit ==
    /\ pc = "draw"
    /\ runner = 0
    /\ SearchInit({Start(PropUnion(a, b), NoTree, {0}, <<a, b>>) :
                     a \in {Just(1), Range},
                     b \in {Just(2), Range, Count(1, 1)}})

\* strategy.new_value(&mut runner)
SearchUnionNewValue ==
    /\ pc = "draw"
    /\ \E pick \in 0..(Len(strategy.options) - 1) :
       \E rs \in [1..Len(strategy.options) -> 0..MaxVal] :
         LET nv == UnionNewValue(strategy, runner, pick, rs)
         IN  /\ runner' = nv.runner
             /\ IF nv.ok
                THEN /\ api' = SearchStart(nv.tree, {Current(nv.tree)},
                                           api.args)
                     /\ pc' = "search"
                ELSE /\ pc' = "aborted"
                     /\ UNCHANGED api
    /\ UNCHANGED <<options, strategy, trial, state, before_simplified,
                   complicated, before_complicated, prev_complicated,
                   num_simplifies, num_complications, result, reason, hist>>

UnionSpec ==
    UnionInit
    /\ [][SearchUnionNewValue \/ SearchSimplify \/ SearchComplicate]_vars

\* The least value of a strategy's trees, and the number of true returns
\* of simplify() a tree can still give.
MinValue(s) == IF s.kind = "Just" THEN s.v ELSE 0
Size(t) == CASE t.kind = "Bin" -> t.cur - t.lo
             [] t.kind = "Count" -> t.cnt
             [] OTHER -> 0

OnlySimplified == pc = "search" /\ api.n_complicate = 0

----------------------------------------------------------------------------
(* prop_flat_map: a caller draws one tree and shrinks it.                  *)

FlatInit ==
    /\ pc = "draw"
    /\ SearchInit({Start(s, NoTree, {0}, <<>>) :
                     s \in {PropFlatMap(RangeS(1, MaxVal + 2), "pair"),
                            PropFlatMap(RangeS(1, MaxVal + 2), "nest"),
                            PropFlatMap(PropFlatMap(RangeS(1, MaxVal + 2),
                                                    "pair"), "first")}})
    /\ runner \in {TestRunner(Config(c, m)) :
                     c \in 1..MaxCases, m \in 0..MaxRegens}

Rng(n) == [1..n -> 0..MaxVal]
Seeded(rnr, rs) == [rnr EXCEPT !.rs = rs]
After(rnr) ==
    [rnr EXCEPT !.rs = <<>>,
                !.was = Usage(runner.flat_map_regens, runner.regenerated,
                              runner.local_rejects, runner.rejected)]

\* strategy.new_value(&mut runner)
FlatNewValue ==
    /\ pc = "draw"
    /\ \E rs \in Rng(3) :
         LET nv == CtxNewValue(strategy, Seeded(runner, rs))
         IN  /\ runner' = After(nv.runner)
             /\ IF nv.ok
                THEN /\ api' = SearchStart(nv.tree, {Current(nv.tree)},
                                           api.args)
                     /\ pc' = "search"
                ELSE /\ pc' = "aborted"
                     /\ UNCHANGED api
    /\ UNCHANGED <<options, strategy, trial, state, before_simplified,
                   complicated, before_complicated, prev_complicated,
                   num_simplifies, num_complications, result, reason, hist>>

\* tree.simplify()
FlatSearchSimplify ==
    /\ pc = "search"
    /\ api.calls < MaxFlatSteps
    /\ \E rs \in Rng(2) :
         LET c == CtxSimplify(api.tree, Seeded(runner, rs))
         IN  /\ api' = Called(api, "simplify", c)
             /\ runner' = After(c.runner)
    /\ UNCHANGED HarnessVars

\* tree.complicate(), once simplify() has been called
FlatSearchComplicate ==
    /\ pc = "search"
    /\ api.calls < MaxFlatSteps
    /\ api.last.op # "none"
    /\ \E rs \in Rng(2) :
         LET c == CtxComplicate(api.tree, Seeded(runner, rs))
         IN  /\ api' = Called(api, "complicate", c)
             /\ runner' = After(c.runner)
    /\ UNCHANGED HarnessVars

FlatSpec ==
    FlatInit
    /\ [][FlatNewValue \/ FlatSearchSimplify \/ FlatSearchComplicate]_vars

RECURSIVE Inputs(_)
\* The trees of the controlling inputs of a tree, outermost first, and the
\* derived value at its core.
Inputs(t) == IF t.kind = "Flat" THEN <<t.meta>> \o Inputs(t.current) ELSE <<>>
RECURSIVE Derived(_)
Derived(t) == IF t.kind = "Flat" THEN Derived(t.current) ELSE t

Exhausted(u) == u.flat_map_regens >= runner.config.max_flat_map_regens

\* C16: the candidates regenerated by all the Flatten trees of the run
\* together never exceed max_flat_map_regens, each of them has consumed the
\* shared counter, and a simplify() call made with the counter exhausted
\* regenerates nothing, leaves every controlling input as it was and does
\* exactly what simplify() of the derived value does.
RegenBudgetShared ==
    pc = "search" =>
        /\ runner.regenerated <= runner.config.max_flat_map_regens
        /\ runner.regenerated <= runner.flat_map_regens
        /\ (api.last.op = "simplify" /\ Exhausted(runner.was)) =>
             /\ runner.regenerated = runner.was.regenerated
             /\ Inputs(api.tree) = Inputs(api.before)
             /\ api.last.ret = Simplify(Derived(api.before)).ret
             /\ Derived(api.tree) = Simplify(Derived(api.before)).t

\* C16 witness: nested flat-maps used up a budget of two, then simplify()
\* was called again.
RegenBudgetUsedUp ==
    /\ pc = "search"
    /\ strategy.fun = "nest"
    /\ runner.config.max_flat_map_regens = 2
    /\ runner.was.regenerated = 2
    /\ Exhausted(runner.was)
    /\ api.last.op = "simplify"
    /\ Len(Inputs(api.tree)) = 2

\* (1..N).prop_flat_map(|a| (Just(a), 0..a))
IsPairBelow == strategy = PropFlatMap(RangeS(1, MaxVal + 2), "pair")

\* C17: every value (a, b) the tree of (1..N).prop_flat_map(|a| (Just(a),
\* 0..a)) shows satisfies 0 <= b < a, with a in 1..N: as drawn and after
\* every simplify() and complicate() call, regenerations included.
FlatMapKeepsOrder ==
    (pc = "search" /\ IsPairBelow) =>
        LET v == Current(api.tree)
        IN  /\ v[1] \in 1..(MaxVal + 1)
            /\ v[2] \in 0..(v[1] - 1)

\* C17 witness: the input was shrunk, candidates were regenerated by
\* simplify() and by complicate(), and the last one was shrunk in place.
FlatMapRegenerated ==
    /\ pc = "search" /\ IsPairBelow
    /\ runner.regenerated >= 2
    /\ api.n_complicate >= 1
    /\ Current(api.tree)[1] < Current(api.init)[1]
    /\ api.last.op = "simplify" /\ api.last.ret
    /\ runner.was.regenerated = runner.regenerated

----------------------------------------------------------------------------
(* prop_shuffle: a caller draws one tree and shrinks it.                   *)

ShuffleInit ==
    /\ pc = "draw"
    /\ runner = 0
    /\ SearchInit({Start(PropShuffle(Just(a)), NoTree, {0}, <<Just(a)>>) :
                     a \in {<<0, 1, 2, 3>>, <<1, 1, 2>>, <<2, 1>>, <<7>>}})

\* strategy.new_value(&mut runner)
SearchShuffleNewValue ==
    /\ pc = "draw"
    /\ LET n == Len(api.args[1].v)
       IN  \E rs \in [1..n -> 0..(n - 1)] :
             LET nv == ShuffleNewValue(strategy, runner, rs)
             IN  /\ runner' = nv.runner
                 /\ nv.ok
                 /\ api' = SearchStart(nv.tree, {Current(nv.tree)}, api.args)
                 /\ pc' = "search"
    /\ UNCHANGED <<options, strategy, trial, state, before_simplified,
                   complicated, before_complicated, prev_complicated,
                   num_simplifies, num_complications, result, reason, hist>>

ShuffleSpec ==
    ShuffleInit
    /\ [][SearchShuffleNewValue \/ SearchSimplify \/ SearchComplicate]_vars

Occurrences(v, x) == Cardinality({i \in DOMAIN v : v[i] = x})
IsPermutation(v, orig) ==
    /\ Len(v) = Len(orig)
    /\ \A i \in DOMAIN orig :
         Occurrences(v, orig[i]) = Occurrences(orig, orig[i])

\* C18: every value the tree of a shuffled fixed array shows is a
\* permutation of the array; with every simplify() accepted the true
\* returns are bounded by the array's length and the first false return
\* comes with the array in its original order.
ShufflePermutes ==
    pc = "search" =>
        LET orig == api.args[1].v
        IN  /\ IsPermutation(Current(api.tree), orig)
            /\ OnlySimplified => api.streak <= Len(orig)
            /\ (OnlySimplified /\ api.last.op = "simplify" /\ ~api.last.ret)
                 => Current(api.tree) = orig

\* C18 witness: the array of four, drawn in reverse order, was shown in
\* another order on the way and is back in its original order.
ShuffleRestored ==
    /\ OnlySimplified
    /\ api.last.op = "simplify" /\ ~api.last.ret
    /\ Current(api.init) = <<3, 2, 1, 0>>
    /\ api.prev.cur # Current(api.init)
    /\ api.calls >= 3
    /\ Current(api.tree) = <<0, 1, 2, 3>>

----------------------------------------------------------------------------
(* prop_filter: a caller draws trees from one runner and shrinks them.     *)

FilterInit ==
    /\ pc = "draw"
    /\ SearchInit({Start(PropFilter(RangeS(0, MaxVal + 1), wh, f), NoTree,
                         {0}, <<wh, f>>) :
                     wh \in {"whence_a", "whence_b"},
                     f \in {"even", "odd", "big", "all", "none"}})
    /\ runner \in {TestRunner([Config(1, 0) EXCEPT !.max_local_rejects = n]) :
                     n \in 0..MaxLocalRejects}

\* strategy.new_value(&mut runner), a first time or again
FilterNewValue ==
    /\ pc \in {"draw", "search"}
    /\ runner.drawn < MaxDraws
    /\ \E rs \in Rng(MaxLocalRejects + 1) :
         LET nv == CtxNewValue(strategy, Seeded(runner, rs))
         IN  /\ runner' = [After(nv.runner) EXCEPT !.drawn = @ + 1]
             /\ api' = SearchStart(nv.tree, {Current(nv.tree)}, api.args)
             /\ pc' = IF nv.ok THEN "search" ELSE "aborted"
             /\ reason' = nv.err
             /\ result' = IF nv.panic THEN "failed" ELSE result
    /\ UNCHANGED <<options, strategy, trial, state, before_simplified,
                   complicated, before_complicated, prev_complicated,
                   num_simplifies, num_complications, hist>>

FilterSpec ==
    FilterInit
    /\ [][FilterNewValue \/ FlatSearchSimplify \/ FlatSearchComplicate]_vars

\* The candidates the last new_value call rejected
RejectedByCall == runner.rejected - runner.was.rejected

\* C19: new_value of a filter counts every rejected candidate against the
\* budget all new_value calls on the runner share; it aborts, without a
\* tree and without panicking, exactly when a candidate is rejected with
\* the budget used up, and the reason then names the filter's whence; the
\* value of a tree it returned satisfies the predicate as drawn and after
\* every simplify() and complicate() call.
FilterRejects ==
    LET whence == api.args[1]
        fun == api.args[2]
        max == runner.config.max_local_rejects
    IN  /\ runner.local_rejects <= max
        /\ result = "running"
        /\ pc = "aborted" =>
             /\ reason = "too many local rejects: " \o whence
             /\ api.tree = NoTree
             /\ runner.local_rejects = max
             /\ RejectedByCall = max - runner.was.local_rejects + 1
        /\ pc = "search" =>
             /\ Accepts(fun, Current(api.tree))
             /\ ~api.tree.panicked
             /\ api.calls = 0 =>
                  RejectedByCall =
                      runner.local_rejects - runner.was.local_rejects

\* C19 witness: a first new_value call returned a tree after a rejection,
\* the tree was simplified past a value the predicate rejects, and a
\* second call on the same runner aborted with the shared budget of two
\* used up.
FilterAborted ==
    /\ pc = "aborted"
    /\ runner.drawn = 2
    /\ runner.config.max_local_rejects = 2
    /\ runner.was.rejected = 1
    /\ runner.stepped_back = 1
    /\ RejectedByCall = 1
    /\ api.args[2] = "big"

----------------------------------------------------------------------------
(* prop_recursive: a caller draws one tree and shrinks it.                 *)

RecursiveInit ==
    /\ pc = "draw"
    /\ SearchInit({Start(PropRecursive(Just(Leaf(0)), d, sz, e, f), NoTree,
                         {0}, <<d, sz, e, f>>) :
                     d \in 0..MaxDepth, sz \in 0..MaxSize,
                     e \in 1..MaxBranchSize, f \in {"single", "pair"}})
    /\ runner = TestRunner(Config(1, 0))

RecursiveSpec ==
    RecursiveInit
    /\ [][FlatNewValue \/ SearchSimplify \/ SearchComplicate]_vars

Largest(S) == CHOOSE x \in S : \A y \in S : y <= x

RECURSIVE Nesting(_)
\* The nesting depth of a value: the number of branches on its longest
\* path to a leaf
Nesting(v) ==
    IF v.leaf THEN 0
    ELSE 1 + Largest({0} \cup {Nesting(v.kids[i]) : i \in DOMAIN v.kids})

LeavesOnly(v) == \A i \in DOMAIN v.kids : v.kids[i].leaf

\* C20: every value the tree of prop_recursive(depth, desired_size,
\* expected_branch_size, recurse) shows, as drawn and after every
\* simplify() and complicate() call, has a nesting depth of at most depth,
\* for every desired_size and expected_branch_size: with depth 0 it is a
\* leaf, with depth 1 a leaf or a branch of leaves.
RecursiveDepthBound ==
    pc = "search" =>
        LET v == Current(api.tree)
            depth == api.args[1]
        IN  /\ Nesting(v) \in 0..depth
            /\ depth = 0 => v.leaf
            /\ depth = 1 => (v.leaf \/ LeavesOnly(v))

\* C20 witness: with depth 2 and the largest desired_size a structure of
\* nesting depth 2 was drawn and shrunk until simplify() returned false,
\* which left a branch of leaves.
RecursiveShrunk ==
    /\ pc = "search"
    /\ api.args = <<MaxDepth, MaxSize, 1, "pair">>
    /\ Nesting(Current(api.init)) = MaxDepth
    /\ api.last.op = "simplify" /\ ~api.last.ret
    /\ Nesting(Current(api.tree)) = 1

====
